---------------------------- MODULE Spec2Model ----------------------------
(***************************************************************************)
(* Model of the SportsLooper scheduler (src/sportslooper.py, the Windows   *)
(* service / script variant, and src/piVersion.py, the Raspberry Pi        *)
(* variant): the health probe with its retry policy, the time-to-live game *)
(* cache, display_module with its cancellable holds, main_loop, and the    *)
(* three ways a run is told to stop (service stop, Ctrl-C, POSIX signal).  *)
(*                                                                         *)
(* Time: holds, interval waits and retry delays are counted in one-second  *)
(* units (ticksLeft); the wall clock read by the cache (now) is counted in *)
(* minutes and advanced by the environment.                                *)
(***************************************************************************)
EXTENDS Integers, Sequences, FiniteSets, TLC

VARIABLES
    mode,          \* "service" | "script" (sportslooper.py), "pi" (piVersion.py), "cache" (cache harness)
    cfg,           \* the configuration read at startup, immutable
    server,        \* the Pixelcade server: "up" (each request answered or not) | "down" (never answers)
    pc,            \* position of the single thread of control
    site,          \* which caller the running probe / hold / interval wait belongs to
    stop_event,    \* TRUE iff the stop event is signaled
    attempt,       \* attempts made by the running health probe
    ticksLeft,     \* seconds left in the running hold, interval wait or retry delay
    idx,           \* index in the module sequence of the module being displayed
    li,            \* index in SUPPORTED_LEAGUES of the league being displayed
    fi,            \* index of the news feed being displayed
    total_elapsed, \* news: seconds of feed display accumulated in this invocation
    now,           \* wall clock, minutes
    cache_expiry,  \* global cache_expiry
    game_cache,    \* global game_cache: league -> list of games
    everSet,       \* history: the stop event has been set
    inv,           \* history: what the current display_module invocation did
    sleepRun,      \* history: seconds slept by the current sleep call without a cancellation check
    holdStopAge,   \* history: seconds slept in the current hold since the event was set in it (-1: not set in it)
    probeLog,      \* history: the last health probe
    lastUpdate,    \* history: the last update_game_cache call
    refN,          \* history: the last refresh that fetched, and the one before it
    exitBy,        \* history: why main_loop ended
    shutdownTried, \* history: the health-gated Shutdown message path was entered
    passParity,    \* history: parity of the number of passes of the main display loop begun
    today,         \* the calendar day of the wall clock
    date,          \* local variable date of main_loop
    passLog,       \* history: what the current pass of the main display loop did
    loopLog,       \* history: the startup loop and the banner loop
    fetchedFor,    \* history: the date the last refresh of the cache was made with
    fetchHist      \* history: per league, the last list fetched and the failed refreshes since

vars == <<mode, cfg, server, pc, site, stop_event, attempt, ticksLeft, idx, li, fi,
          total_elapsed, now, cache_expiry, game_cache, everSet, inv, sleepRun,
          holdStopAge, probeLog, lastUpdate, refN, exitBy, shutdownTried, passParity,
          today, date, passLog, loopLog, fetchedFor, fetchHist>>

cacheVars == <<now, cache_expiry, game_cache, lastUpdate, refN, fetchedFor, fetchHist>>
loopVars  == <<pc, site, stop_event, attempt, ticksLeft, idx, li, fi, total_elapsed,
               everSet, inv, sleepRun, holdStopAge, probeLog, exitBy, shutdownTried,
               passParity, today, date, passLog, loopLog>>

---------------------------------------------------------------------------
(* Bounds of the model *)

MaxNow == 62          \* the wall clock stops advancing here (two expiries fit)
MaxFailRun == 2       \* failed refreshes in a row that are told apart
MaxDay == 1           \* the number of midnights that pass

---------------------------------------------------------------------------
(* Program constants *)

CACHE_TTL == 30       \* timedelta(minutes=30)
MAX_ATTEMPTS == 3     \* stop_after_attempt(3)
RETRY_WAIT == 2       \* wait_fixed(2)
BANNER_HOLD == 10     \* for _ in range(10)
DEFAULT_SECONDS_PER_GAME == 40   \* config['sports'].get('seconds_per_game', 4), in tenths of a second

\* SUPPORTED_LEAGUES in declaration order (its first three keys).
SUPPORTED_LEAGUES == <<"nfl", "nba", "nhl">>

Range(s) == {s[i] : i \in 1..Len(s)}

Max(a, b) == IF a >= b THEN a ELSE b

---------------------------------------------------------------------------
(* Upstream data *)

\* A game record of the ESPN scoreboard: an identifier and the abbreviations of
\* its competitors.
Game(i, a, b) == [id |-> i, teams |-> {a, b}]

GameLists ==
    { <<>>,
      <<Game(1, "A", "B")>>,
      <<Game(1, "A", "B"), Game(2, "C", "D")>> }

\* A scoreboard of three games.
ThreeGames == <<Game(1, "A", "B"), Game(2, "C", "D"), Game(3, "E", "F")>>

\* What one requests.get of fetch_espn_games can do: answer with one of the
\* lists of events the upstream has, or raise requests.RequestException.
FetchOutcomes(lists) ==
    {[ok |-> TRUE, games |-> g] : g \in lists} \cup {[ok |-> FALSE, games |-> <<>>]}

---------------------------------------------------------------------------
(* Configuration (sportslooper.ini) *)

BaseConfig ==
    [ sequence |-> <<"weather", "sports">>,   \* [order] sequence
      sections |-> {"weather", "clock", "sports", "stocks", "news"},
      disabled |-> {},                         \* modules with enabled = false
      duration |-> 25,                         \* weather / clock / stocks duration, in tenths of a second
      league_keys |-> <<"nfl">>,               \* [sports] league options, in file order
      leagues |-> {"nfl"},                     \* [sports] <league> = true
      upstream |-> GameLists,                  \* scoreboards the ESPN API may answer with
      has_seconds_per_game |-> TRUE,           \* [sports] seconds_per_game is given
      seconds_per_game |-> 10,                 \* in tenths of a second
      teams |-> {},                            \* [sports] <league>_teams
      use_team_filter |-> TRUE,
      feeds |-> 2,                             \* number of urls in [news] rss_feeds
      duration_per_feed |-> 2,
      max_total_runtime |-> 0,
      health_check_interval |-> 2,             \* [pixelcade] health_check_interval, in seconds
      health_check_timeout |-> 5 ]             \* [pixelcade] health_check_timeout, in seconds

\* Configurations of the cache harness: which leagues are switched on.
CacheConfigs ==
    { [BaseConfig EXCEPT !.league_keys = k, !.leagues = {k[i] : i \in DOMAIN k}] :
          k \in {<<>>, <<"nba">>, <<"nhl", "nfl">>} }

---------------------------------------------------------------------------
(* Data Cache: fetch_espn_games, update_game_cache *)

EmptyCache == [l \in {} |-> <<>>]

\* game_cache.get(league, [])
CacheGet(cache, league) == IF league \in DOMAIN cache THEN cache[league] ELSE <<>>

\* Variant of fetch_espn_games that answers a failure with an empty list.
fetch_espn_games_blank(league, outcome, cache) ==
    IF outcome.ok THEN outcome.games ELSE <<>>

\* fetch_espn_games(league, date): the fetched events, or on RequestException the
\* league's entry of the (still current) global game_cache.
fetch_espn_games(league, outcome, cache) ==
    IF outcome.ok THEN outcome.games ELSE CacheGet(cache, league)

\* enabled_leagues = [league for league in SUPPORTED_LEAGUES if has_option and getboolean]
enabled_leagues(c) == SelectSeq(SUPPORTED_LEAGUES, LAMBDA l : l \in c.leagues)

Put(d, k, v) == [x \in DOMAIN d \cup {k} |-> IF x = k THEN v ELSE d[x]]

\* {league: fetch_espn_games(league, date) for league in enabled_leagues}: the new
\* dictionary and the list of upstream requests made, in order.
RECURSIVE FetchAll(_, _, _, _)
FetchAll(leagues, out, old, acc) ==
    IF leagues = <<>> THEN acc
    ELSE FetchAll(Tail(leagues), out, old,
                  [cache |-> Put(acc.cache, Head(leagues),
                                 fetch_espn_games(Head(leagues), out[Head(leagues)], old)),
                   log |-> Append(acc.log, Head(leagues))])

\* Variant of the expiry test with a strict comparison.
CacheExpiredStrict(t, expiry) == t > expiry

\* Variant of the expiry test that always refreshes.
CacheExpiredAlways(t, expiry) == TRUE

\* Variant of the expiry test that also refreshes when the date has changed
\* since the last refresh.
CacheExpiredOrNewDate(t, expiry) == t >= expiry \/ date # fetchedFor

\* if datetime.now() >= cache_expiry
CacheExpired(t, expiry) == t >= expiry

\* cache_expiry = datetime.now() + timedelta(minutes=30)
NewExpiry(t) == t + CACHE_TTL

AllFetched(out) == \A l \in DOMAIN out : out[l].ok

\* What is known of a league's upstream requests: whether one has succeeded
\* (ok), the list the last successful one answered (good), and the number of
\* refreshes since in which the request failed (fails, counted up to
\* MaxFailRun).
NoFetch == [ok |-> FALSE, good |-> <<>>, fails |-> 0]

\* The history of the leagues after a refresh with the outcomes `out`.
FetchHistAfter(out) ==
    [l \in DOMAIN fetchHist |->
        IF l \notin DOMAIN out THEN fetchHist[l]
        ELSE IF out[l].ok THEN [ok |-> TRUE, good |-> out[l].games, fails |-> 0]
        ELSE [fetchHist[l] EXCEPT !.fails = IF @ < MaxFailRun THEN @ + 1 ELSE @]]

\* Variant of update_game_cache that advances the expiry only when every fetch
\* of the refresh succeeded.
update_game_cache_strict(out, record) ==
    LET fresh == FetchAll(enabled_leagues(cfg), out, game_cache,
                          [cache |-> EmptyCache, log |-> <<>>])
        hit == CacheExpired(now, cache_expiry)
    IN  /\ game_cache' = IF hit THEN fresh.cache ELSE game_cache
        /\ fetchedFor' = IF hit THEN date ELSE fetchedFor
        /\ fetchHist' = IF hit /\ record THEN FetchHistAfter(out) ELSE fetchHist
        /\ cache_expiry' = IF hit /\ AllFetched(out) THEN NewExpiry(now) ELSE cache_expiry
        /\ IF record
           THEN /\ lastUpdate' = [called |-> TRUE, at |-> now, beforeExpiry |-> cache_expiry,
                                  before |-> game_cache,
                                  log |-> IF hit THEN fresh.log ELSE <<>>]
                /\ refN' = IF hit
                           THEN [n |-> refN.n + (IF refN.n < 2 THEN 1 ELSE 0),
                                 at |-> now, prevAt |-> refN.at,
                                 out |-> out, prevOut |-> refN.out]
                           ELSE refN
           ELSE UNCHANGED <<lastUpdate, refN>>

\* update_game_cache(date), with `out` the outcome of the upstream request of each
\* enabled league. `record` says whether the history of refreshes is kept.
update_game_cache(out, record) ==
    LET fresh == FetchAll(enabled_leagues(cfg), out, game_cache,
                          [cache |-> EmptyCache, log |-> <<>>])
        hit == CacheExpired(now, cache_expiry)
    IN  /\ game_cache' = IF hit THEN fresh.cache ELSE game_cache
        /\ fetchedFor' = IF hit THEN date ELSE fetchedFor
        /\ fetchHist' = IF hit /\ record THEN FetchHistAfter(out) ELSE fetchHist
        /\ cache_expiry' = IF hit THEN NewExpiry(now) ELSE cache_expiry
        /\ IF record
           THEN /\ lastUpdate' = [called |-> TRUE, at |-> now, beforeExpiry |-> cache_expiry,
                                  before |-> game_cache,
                                  log |-> IF hit THEN fresh.log ELSE <<>>]
                /\ refN' = IF hit
                           THEN [n |-> refN.n + (IF refN.n < 2 THEN 1 ELSE 0),
                                 at |-> now, prevAt |-> refN.at,
                                 out |-> out, prevOut |-> refN.out]
                           ELSE refN
           ELSE UNCHANGED <<lastUpdate, refN>>

NoUpdate == [called |-> FALSE, at |-> 0, beforeExpiry |-> 0, before |-> EmptyCache, log |-> <<>>]
NoRefresh == [n |-> 0, at |-> 0, prevAt |-> 0, out |-> EmptyCache, prevOut |-> EmptyCache]

Outcomes(c) == [Range(enabled_leagues(c)) -> FetchOutcomes(c.upstream)]

\* The upstream requests one call of update_game_cache makes, in order.
Fetched(out) ==
    IF CacheExpired(now, cache_expiry)
    THEN FetchAll(enabled_leagues(cfg), out, game_cache, [cache |-> EmptyCache, log |-> <<>>]).log
    ELSE <<>>

---------------------------------------------------------------------------
(* Initial values shared by every specification *)

\* What one invocation of display_module did: its module, the outcome of its
\* probe, whether it reached the branch of its module, the display requests it
\* issued (calls), those that succeeded (shown) and failed (failed), the lines it
\* wrote with logging.error (errors) and to the fallback log (fallback), the
\* seconds its holds slept (ticks; hold: those of the last hold), whether a hold
\* was ended by the stop event (cut), and for the last sports request the game
\* list the duration was computed from and whether a teams parameter was sent;
\* the date it was called with, the leagues it requested (visited) and fetched
\* upstream (fetched), and the number of its display requests at the moment the
\* stop event was set in it (stopCalls, -1: not set in it); and the number of
\* check_pixelcade_health calls it made (probes).
NoInv == [module |-> "", probe |-> "none", dispatched |-> FALSE, calls |-> 0, shown |-> 0,
          failed |-> 0, errors |-> 0, fallback |-> 0, ticks |-> 0, hold |-> 0, cut |-> FALSE,
          games |-> <<>>, teamsParam |-> FALSE, date |-> 0,
          visited |-> <<>>, fetched |-> <<>>, stopCalls |-> -1, probes |-> 0]
NoProbe == [attempts |-> 0, slept |-> 0, result |-> "none", timeout |-> 0]

\* What one pass of the main display loop did: the day it began on, the modules
\* display_module was called for, the modules a display request was issued for,
\* the seconds slept in holds, whether a probe or a request failed or the stop
\* event was seen in it, and the number of modules display_module had been
\* called for when the stop event was set between two of them (between, 0: it
\* was not), and whether a module was skipped in it because the probe was
\* exhausted (outage).
NoPass == [day |-> 0, order |-> <<>>, calls |-> <<>>, ticks |-> 0, trouble |-> FALSE,
           between |-> 0, outage |-> FALSE]

\* The startup loop and the banner loop: whether a probe of the startup loop
\* succeeded, whether the stop event was set during an interval wait of the
\* startup loop, and for the last round of the loop at hand what it did ("none",
\* "sent": banner shown, "failed": banner request failed, "down": probe
\* exhausted), the fallback-log lines it wrote and whether it ended with the
\* interval wait; and for the startup banner, until the loop after it begins,
\* what became of it (banner, as round), the seconds its hold slept (held) and
\* the fallback-log lines written for it (bannerLog).
NoLoop == [awaitOk |-> FALSE, stopInWait |-> FALSE, round |-> "none", fallback |-> 0,
           waited |-> FALSE, banner |-> "none", held |-> 0, bannerLog |-> 0]

InitCommon ==
    /\ site = "none"
    /\ stop_event = FALSE
    /\ attempt = 0
    /\ ticksLeft = 0
    /\ idx = 0
    /\ li = 0
    /\ fi = 0
    /\ total_elapsed = 0
    /\ now = 0
    /\ cache_expiry = 0          \* cache_expiry = datetime.now() at import
    /\ game_cache = EmptyCache   \* game_cache = {}
    /\ everSet = FALSE
    /\ inv = NoInv
    /\ sleepRun = 0
    /\ holdStopAge = -1
    /\ probeLog = NoProbe
    /\ lastUpdate = NoUpdate
    /\ refN = NoRefresh
    /\ fetchedFor = 0
    /\ fetchHist = [l \in Range(SUPPORTED_LEAGUES) |-> NoFetch]
    /\ exitBy = "none"
    /\ shutdownTried = FALSE
    /\ passParity = 0
    /\ today = 0
    /\ date = 0
    /\ passLog = NoPass
    /\ loopLog = NoLoop

---------------------------------------------------------------------------
(* The cache harness: any sequence of update_game_cache calls, with time passing *)

InitCache ==
    /\ mode = "cache"
    /\ server = "up"
    /\ cfg \in CacheConfigs
    /\ pc = "harness"
    /\ InitCommon

\* One call of update_game_cache.
CacheCall ==
    /\ mode = "cache"
    /\ \E out \in Outcomes(cfg) : update_game_cache(out, TRUE)
    /\ UNCHANGED <<mode, cfg, server, now>>
    /\ UNCHANGED loopVars

\* The clock is read at moments just short of, exactly at and just past a
\* time-to-live after the last reading.
ElapseSteps == {CACHE_TTL - 1, CACHE_TTL, CACHE_TTL + 1}

\* d minutes pass.
Elapse(d) ==
    /\ now + d <= MaxNow
    /\ now' = now + d
    /\ UNCHANGED <<mode, cfg, server, cache_expiry, game_cache, lastUpdate, refN, fetchedFor,
                   fetchHist>>
    /\ UNCHANGED loopVars

CacheElapse ==
    /\ mode = "cache"
    /\ \E d \in ElapseSteps : Elapse(d)

CacheNext == CacheCall \/ CacheElapse

SpecCache == InitCache /\ [][CacheNext]_vars

---------------------------------------------------------------------------
(* Configurations of a run *)

NoTeams == [l \in Range(SUPPORTED_LEAGUES) |-> {}]

Configs ==
    { \* weather, then sports with one league; teams listed but the filter switched off
      [BaseConfig EXCEPT !.teams = [NoTeams EXCEPT !["nfl"] = {"A"}],
                         !.use_team_filter = FALSE],
      \* an empty module sequence: the banner loop
      [BaseConfig EXCEPT !.teams = NoTeams, !.sequence = <<>>],
      \* news with three feeds and a runtime cap (60, 60, 60 against 100, scaled
      \* to 3, 3, 3 against 5), after a disabled clock
      [BaseConfig EXCEPT !.teams = NoTeams, !.sequence = <<"clock", "news">>,
                         !.disabled = {"clock"}, !.feeds = 3, !.duration_per_feed = 3,
                         !.max_total_runtime = 5],
      \* news with two feeds and no runtime cap
      [BaseConfig EXCEPT !.teams = NoTeams, !.sequence = <<"news">>,
                         !.duration_per_feed = 1],
      \* sports with two leagues, one of them filtered, and a fractional
      \* seconds_per_game, after stocks without a section
      [BaseConfig EXCEPT !.teams = [NoTeams EXCEPT !["nba"] = {"A"}],
                         !.sequence = <<"stocks", "sports">>,
                         !.sections = {"sports"}, !.league_keys = <<"nba", "nfl">>,
                         !.leagues = {"nfl", "nba"}, !.seconds_per_game = 15],
      \* sports with one league, a filter on a team of the second game only, and
      \* no seconds_per_game
      [BaseConfig EXCEPT !.teams = [NoTeams EXCEPT !["nhl"] = {"C"}],
                         !.sequence = <<"sports">>, !.league_keys = <<"nhl">>,
                         !.leagues = {"nhl"}, !.has_seconds_per_game = FALSE],
      \* a disabled weather, then sports with one league of three games and
      \* seconds_per_game = 4
      [BaseConfig EXCEPT !.teams = NoTeams, !.disabled = {"weather"},
                         !.seconds_per_game = 40, !.upstream = {ThreeGames}],
      \* three modules, one of them listed twice, with a duration of half a
      \* second
      [BaseConfig EXCEPT !.teams = NoTeams, !.sequence = <<"clock", "weather", "clock">>,
                         !.duration = 5],
      \* sports switched off
      [BaseConfig EXCEPT !.teams = NoTeams, !.sequence = <<"sports">>,
                         !.disabled = {"sports"}],
      \* sports without a section
      [BaseConfig EXCEPT !.teams = NoTeams, !.sequence = <<"sports">>,
                         !.sections = {"weather", "clock"}] }

Modes == {"service", "script", "pi"}

---------------------------------------------------------------------------
(* The stop event *)

\* The state of the event after a wait on it was satisfied. The service's event
\* is win32event.CreateEvent(None, 0, 0, None): bManualReset = 0, an auto-reset
\* event, which a satisfied WaitForSingleObject resets. A threading.Event stays
\* set.
EventAfterWait(m, e) == IF m = "service" THEN FALSE ELSE e

\* is_event_signaled(stop_event) / stop_event.is_set(): the answer is stop_event,
\* and the event is left as a satisfied wait leaves it.
Observed == stop_event' = (IF stop_event THEN EventAfterWait(mode, stop_event) ELSE stop_event)

---------------------------------------------------------------------------
(* Positions *)

Terminal == {"returned", "crashed", "exited"}

\* The statements inside the try block of the main display loop.
InCycling ==
    \/ pc \in {"cycle_check", "dm_entry", "dm_enabled", "dm_request", "sports_update",
               "sports_league", "sports_request", "news_feed", "news_request", "dm_done"}
    \/ pc \in {"probe_try", "probe_sleep", "probe_done", "hold_check", "hold_sleep"}
          /\ site = "dm"

InHold == pc \in {"hold_check", "hold_sleep"} /\ ticksLeft > 0

Module == cfg.sequence[idx]

\* modules = [...]; if not modules: the banner loop, else the main display loop
AfterBanner == IF Len(cfg.sequence) = 0 THEN "idle_check" ELSE "cycle_check"

\* What a request to the Pixelcade server can do: succeed (TRUE), or raise
\* requests.RequestException (FALSE: no connection, timeout, or an error status
\* turned into HTTPError by raise_for_status). A server that is down never
\* answers.
Answers == IF server = "down" THEN {FALSE} ELSE BOOLEAN

---------------------------------------------------------------------------
(* Health Prober: check_pixelcade_health under @retry(stop_after_attempt(3), wait_fixed(2)) *)

StartProbe(s) ==
    /\ pc' = "probe_try"
    /\ site' = s
    /\ attempt' = 0
    /\ probeLog' = [attempts |-> 0, slept |-> 0, result |-> "running", timeout |-> 0]

\* Variant in which display_module goes from the probe straight to the branch
\* of the module, without the section and enabled tests.
ProbeOkPcUntested(s) ==
    CASE s = "await"  -> "banner_start"
      [] s = "banner" -> "banner_send"
      [] s = "idle"   -> "idle_send"
      [] s = "dm"     -> "dm_request"
      [] s = "kbd"    -> "kbd_send"
      [] s = "sig"    -> "sig_send"

\* Where the caller goes on when the probe returned True.
ProbeOkPc(s) ==
    CASE s = "await"  -> "banner_start"
      [] s = "banner" -> "banner_send"
      [] s = "idle"   -> "idle_send"
      [] s = "dm"     -> "dm_enabled"
      [] s = "kbd"    -> "kbd_send"
      [] s = "sig"    -> "sig_send"

\* Variant in which display_module goes on to the module after RetryError.
ProbeFailPcOpen(s) ==
    CASE s = "await"  -> "wait"
      [] s = "banner" -> AfterBanner
      [] s = "idle"   -> "wait"
      [] s = "dm"     -> "dm_enabled"
      [] s = "kbd"    -> "returned"
      [] s = "sig"    -> "exited"

\* Variant in which an exhausted probe of display_module ends main_loop.
ProbeFailPcFatal(s) ==
    CASE s = "await"  -> "wait"
      [] s = "banner" -> AfterBanner
      [] s = "idle"   -> "wait"
      [] s = "dm"     -> "returned"
      [] s = "kbd"    -> "returned"
      [] s = "sig"    -> "exited"

\* Variant in which the startup banner is sent although its probe was exhausted.
ProbeFailPcBanner(s) ==
    CASE s = "await"  -> "wait"
      [] s = "banner" -> "banner_send"
      [] s = "idle"   -> "wait"
      [] s = "dm"     -> "dm_done"
      [] s = "kbd"    -> "returned"
      [] s = "sig"    -> "exited"

\* Where the caller goes on when the probe raised tenacity.RetryError.
ProbeFailPc(s) ==
    CASE s = "await"  -> "wait"
      [] s = "banner" -> AfterBanner
      [] s = "idle"   -> "wait"
      [] s = "dm"     -> "dm_done"
      [] s = "kbd"    -> "returned"
      [] s = "sig"    -> "exited"

\* Variant of the stop rule that allows one attempt more.
RetryStopLate(n) == n > MAX_ATTEMPTS

\* tenacity: stop after the attempt numbered MAX_ATTEMPTS.
RetryStop(n) == n >= MAX_ATTEMPTS

\* The timeout= argument of the probe's requests.get: health_check_interval in
\* sportslooper.py, health_check_timeout in piVersion.py.
ProbeTimeout == IF mode = "pi" THEN cfg.health_check_timeout ELSE cfg.health_check_interval

\* One attempt: requests.get(.../text, t=health). A success ends the probe with
\* True; a failure is followed by the fixed delay, or, after the last attempt,
\* ends the probe with RetryError.
ProbeAttempt ==
    /\ pc = "probe_try"
    /\ \E ok \in Answers :
        LET n == attempt + 1
            done == ok \/ RetryStop(n)
        IN  /\ attempt' = n
            /\ probeLog' = [probeLog EXCEPT !.attempts = n, !.timeout = ProbeTimeout,
                               !.result = IF ok THEN "ok"
                                          ELSE IF RetryStop(n) THEN "exhausted" ELSE "running"]
            /\ pc' = IF done THEN "probe_done" ELSE "probe_sleep"
            /\ ticksLeft' = IF done THEN 0 ELSE RETRY_WAIT
    /\ sleepRun' = 0
    /\ UNCHANGED <<passParity, today, date, passLog, loopLog, mode, cfg, server,
                   site, stop_event, idx, li, fi, total_elapsed, everSet, inv,
                   holdStopAge, exitBy, shutdownTried>>
    /\ UNCHANGED cacheVars

\* The probe is over and its caller goes on: with True, or in its handler of
\* RetryError (which writes to the fallback log and, in the two waiting loops,
\* starts the interval wait).
ProbeReturn ==
    /\ pc = "probe_done"
    /\ LET ok == probeLog.result = "ok"
           next == IF ok THEN ProbeOkPc(site) ELSE ProbeFailPc(site)
       IN  /\ pc' = next
           /\ ticksLeft' = IF next = "wait" THEN cfg.health_check_interval ELSE 0
           /\ site' = IF next = "wait" THEN site ELSE "none"
           /\ inv' = IF site = "dm"
                     THEN IF ok THEN [inv EXCEPT !.probe = "ok", !.probes = @ + 1]
                          ELSE [inv EXCEPT !.probe = "exhausted", !.probes = @ + 1,
                                           !.fallback = @ + 1]
                     ELSE inv
           /\ exitBy' = IF next = "returned" THEN "kbd"
                        ELSE IF next = "exited" THEN "signal" ELSE exitBy
    /\ attempt' = 0
    /\ probeLog' = NoProbe
    /\ passLog' = IF site = "dm" /\ probeLog.result # "ok"
                  THEN [passLog EXCEPT !.trouble = TRUE, !.outage = TRUE] ELSE passLog
    /\ loopLog' = IF site = "await" /\ probeLog.result = "ok"
                  THEN [loopLog EXCEPT !.awaitOk = TRUE]
                  ELSE IF site \in {"await", "idle"}
                  THEN [loopLog EXCEPT !.round = "down", !.fallback = @ + 1]
                  ELSE IF site = "banner" /\ probeLog.result # "ok"
                  THEN [loopLog EXCEPT !.banner = "down", !.bannerLog = @ + 1]
                  ELSE loopLog
    /\ UNCHANGED <<passParity, today, date, mode, cfg, server,
                   stop_event, idx, li, fi, total_elapsed, everSet, sleepRun,
                   holdStopAge, shutdownTried>>
    /\ UNCHANGED cacheVars

\* One second of the delay between two attempts: time.sleep(2) inside tenacity,
\* which looks at no event.
ProbeSleep ==
    /\ pc = "probe_sleep"
    /\ ticksLeft' = ticksLeft - 1
    /\ sleepRun' = sleepRun + 1
    /\ probeLog' = [probeLog EXCEPT !.slept = @ + 1]
    /\ pc' = IF ticksLeft - 1 = 0 THEN "probe_try" ELSE "probe_sleep"
    /\ UNCHANGED <<passParity, today, date, passLog, loopLog, mode, cfg, server,
                   site, stop_event, attempt, idx, li, fi, total_elapsed,
                   everSet, inv, holdStopAge, exitBy, shutdownTried>>
    /\ UNCHANGED cacheVars

---------------------------------------------------------------------------
(* Waits *)

\* The loop that the interval wait of a caller returns to.
WaitReturnPc(s) ==
    CASE s = "await" -> "await_check"
      [] s = "idle"  -> "idle_check"

\* stop_event.wait(health_check_interval) / WaitForSingleObject(stop_event, ms):
\* the event is signaled and ends the wait.
WaitWake ==
    /\ pc = "wait"
    /\ stop_event
    /\ stop_event' = EventAfterWait(mode, stop_event)
    /\ pc' = WaitReturnPc(site)
    /\ ticksLeft' = 0
    /\ site' = "none"
    /\ loopLog' = [loopLog EXCEPT !.waited = TRUE]
    /\ UNCHANGED <<passParity, today, date, passLog, mode, cfg, server,
                   attempt, idx, li, fi, total_elapsed, everSet, inv,
                   sleepRun, holdStopAge, probeLog, exitBy, shutdownTried>>
    /\ UNCHANGED cacheVars

\* One second of the interval wait passes with the event not signaled; the wait
\* times out when the interval is over.
WaitTick ==
    /\ pc = "wait"
    /\ ~stop_event
    /\ ticksLeft' = Max(ticksLeft - 1, 0)
    /\ pc' = IF ticksLeft <= 1 THEN WaitReturnPc(site) ELSE "wait"
    /\ site' = IF ticksLeft <= 1 THEN "none" ELSE site
    /\ loopLog' = IF ticksLeft <= 1 THEN [loopLog EXCEPT !.waited = TRUE] ELSE loopLog
    /\ UNCHANGED <<passParity, today, date, passLog, mode, cfg, server,
                   stop_event, attempt, idx, li, fi, total_elapsed,
                   everSet, inv, sleepRun, holdStopAge, probeLog, exitBy, shutdownTried>>
    /\ UNCHANGED cacheVars

\* for _ in range(n): if is_event_signaled(stop_event): return; time.sleep(1)
\* (range(n) is empty for n <= 0)
EnterHold(n, s) ==
    /\ pc' = "hold_check"
    /\ site' = s
    /\ ticksLeft' = Max(n, 0)
    /\ holdStopAge' = -1

\* Variant of the hold loop that never looks at the event.
HoldSeesStopNever == FALSE

\* if is_event_signaled(stop_event) at the head of each iteration of a hold loop
HoldSeesStop == stop_event

\* The head of the hold loop. With no iteration left the loop is over and the
\* caller goes on; otherwise the event is looked at, and a signaled event makes
\* the caller return (display_module to the main loop, main_loop to its caller).
HoldCheck ==
    /\ pc = "hold_check"
    /\ IF ticksLeft = 0
       THEN /\ pc' = IF site = "banner" THEN AfterBanner
                     ELSE IF site = "idle" THEN "idle_check"
                     ELSE IF Module = "sports" THEN "sports_league"
                     ELSE IF Module = "news" THEN "news_feed"
                     ELSE "dm_done"
            /\ li' = IF site = "dm" /\ Module = "sports" THEN li + 1 ELSE li
            /\ fi' = IF site = "dm" /\ Module = "news" THEN fi + 1 ELSE fi
            /\ total_elapsed' = IF site = "dm" /\ Module = "news"
                                THEN total_elapsed + cfg.duration_per_feed
                                ELSE total_elapsed
            /\ UNCHANGED <<stop_event, exitBy>>
       ELSE IF HoldSeesStop
       THEN /\ Observed
            /\ pc' = IF site = "dm" THEN "dm_done" ELSE "returned"
            /\ exitBy' = IF site = "dm" THEN exitBy ELSE "token"
            /\ UNCHANGED <<li, fi, total_elapsed>>
       ELSE /\ pc' = "hold_sleep"
            /\ UNCHANGED <<stop_event, exitBy, li, fi, total_elapsed>>
    /\ sleepRun' = 0
    /\ holdStopAge' = IF pc' = "hold_sleep" THEN holdStopAge ELSE -1
    /\ site' = IF pc' = "hold_sleep" THEN site ELSE "none"
    /\ ticksLeft' = IF pc' = "hold_sleep" THEN ticksLeft ELSE 0
    /\ inv' = IF site = "dm" /\ ticksLeft > 0 /\ HoldSeesStop THEN [inv EXCEPT !.cut = TRUE] ELSE inv
    /\ passLog' = IF site = "dm" /\ ticksLeft > 0 /\ HoldSeesStop
                  THEN [passLog EXCEPT !.trouble = TRUE] ELSE passLog
    /\ UNCHANGED <<passParity, today, date, loopLog, mode, cfg, server,
                   attempt, idx, everSet, probeLog, shutdownTried>>
    /\ UNCHANGED cacheVars

\* time.sleep(1) of the hold loop.
HoldSleep ==
    /\ pc = "hold_sleep"
    /\ ticksLeft' = ticksLeft - 1
    /\ sleepRun' = sleepRun + 1
    /\ inv' = IF site = "dm" THEN [inv EXCEPT !.ticks = @ + 1, !.hold = @ + 1] ELSE inv
    /\ holdStopAge' = IF holdStopAge >= 0 THEN holdStopAge + 1 ELSE holdStopAge
    /\ pc' = "hold_check"
    /\ passLog' = IF site = "dm" THEN [passLog EXCEPT !.ticks = @ + 1] ELSE passLog
    /\ loopLog' = IF site = "banner" THEN [loopLog EXCEPT !.held = @ + 1] ELSE loopLog
    /\ UNCHANGED <<passParity, today, date, mode, cfg, server,
                   site, stop_event, attempt, idx, li, fi, total_elapsed,
                   everSet, probeLog, exitBy, shutdownTried>>
    /\ UNCHANGED cacheVars

---------------------------------------------------------------------------
(* Module Dispatcher: display_module *)

\* int(x) of a float kept in tenths: truncation toward zero.
ToInt(x10) == IF x10 >= 0 THEN x10 \div 10 ELSE -((-x10) \div 10)

\* Variant of the section test that never skips a module.
SectionSkipNever(module) == FALSE

\* if not config.has_section(module): return
SectionSkip(module) == module \notin cfg.sections

\* Variant of the enabled test that never skips a module.
DisabledSkipNever(module) == FALSE

\* not config.getboolean(module, 'enabled', fallback=True)
DisabledSkip(module) == module \in cfg.disabled

\* Variant of the filter that keeps the whole list when no game matches.
TeamFilterOrAll(games, teams) ==
    IF SelectSeq(games, LAMBDA g : g.teams \cap teams # {}) = <<>> THEN games
    ELSE SelectSeq(games, LAMBDA g : g.teams \cap teams # {})

\* [game for game in games if ... any(team == comp['team']['abbreviation'] ...)]:
\* the games of the list in which a configured team plays, in the order of the list.
TeamFilter(games, teams) == SelectSeq(games, LAMBDA g : g.teams \cap teams # {})

\* Variant of the filter condition that looks at the switch only.
TeamsActiveAlways(league) == cfg.use_team_filter

\* if teams and config['sports'].getboolean('use_team_filter', True)
TeamsActive(league) == cfg.teams[league] # {} /\ cfg.use_team_filter

\* games = game_cache.get(league, []), filtered when teams are configured and
\* use_team_filter is on.
FilteredGames(league) ==
    LET games == CacheGet(game_cache, league)
    IN  IF TeamsActive(league) THEN TeamFilter(games, cfg.teams[league]) ELSE games

\* seconds_per_game = float(config['sports'].get('seconds_per_game', 4)), in tenths
seconds_per_game(c) ==
    IF c.has_seconds_per_game THEN c.seconds_per_game ELSE DEFAULT_SECONDS_PER_GAME

\* display_time = max(len(games) * seconds_per_game, seconds_per_game), in tenths
display_time(games) ==
    Max(Len(games) * seconds_per_game(cfg), seconds_per_game(cfg))

\* Variant of the runtime test that lets no feed run past the cap.
CapReachedAhead(elapsed, cap) == cap # 0 /\ elapsed + cfg.duration_per_feed > cap

\* if max_total_runtime and total_elapsed >= max_total_runtime: break
CapReached(elapsed, cap) == cap # 0 /\ elapsed >= cap

\* Variant in which a failed display call is followed by another try.
AfterCallFailureRetry(module) == IF module = "sports" THEN "sports_league" ELSE "dm_request"

\* except requests.RequestException of display_module: the error is logged and
\* display_module returns.
AfterCallFailure(module) == "dm_done"

\* Variant in which a failed feed request ends the news module.
AfterFeedFailureAbort == "dm_done"

\* except requests.RequestException inside the feed loop: continue
AfterFeedFailure == "news_feed"

\* if is_event_signaled(stop_event): return; otherwise the health probe starts.
DmEntry ==
    /\ pc = "dm_entry"
    /\ inv' = [NoInv EXCEPT !.module = Module, !.date = date]
    /\ passLog' = [passLog EXCEPT !.order = Append(@, Module),
                                  !.trouble = @ \/ stop_event]
    /\ IF stop_event
       THEN /\ Observed
            /\ pc' = "dm_done"
            /\ UNCHANGED <<site, attempt, probeLog>>
       ELSE /\ StartProbe("dm")
            /\ UNCHANGED stop_event
    /\ UNCHANGED <<passParity, today, date, loopLog, mode, cfg, server,
                   ticksLeft, idx, li, fi, total_elapsed, everSet, sleepRun,
                   holdStopAge, exitBy, shutdownTried>>
    /\ UNCHANGED cacheVars

\* config.has_section(module); config.getboolean(module, 'enabled', fallback=True);
\* then the branch of the module.
DmEnabled ==
    /\ pc = "dm_enabled"
    /\ LET skip == SectionSkip(Module) \/ DisabledSkip(Module)
       IN  /\ pc' = IF skip THEN "dm_done"
                    ELSE IF Module = "sports" THEN "sports_update"
                    ELSE IF Module = "news" THEN (IF cfg.feeds = 0 THEN "dm_done" ELSE "news_feed")
                    ELSE "dm_request"
           /\ inv' = [inv EXCEPT !.dispatched = ~skip]
    /\ fi' = IF pc' = "news_feed" THEN 1 ELSE fi
    /\ UNCHANGED <<passParity, today, date, passLog, loopLog, mode, cfg, server,
                   site, stop_event, attempt, ticksLeft, idx, li, total_elapsed,
                   everSet, sleepRun, holdStopAge, probeLog, exitBy, shutdownTried>>
    /\ UNCHANGED cacheVars

\* weather, clock, stocks: one request; on success the hold of int(duration)
\* seconds, on RequestException the error is logged and the module is left.
DmRequest ==
    /\ pc = "dm_request"
    /\ \E ok \in Answers :
        /\ passLog' = [passLog EXCEPT !.calls = Append(@, Module), !.trouble = @ \/ ~ok]
        /\ IF ok THEN /\ EnterHold(ToInt(cfg.duration), "dm")
                      /\ inv' = [inv EXCEPT !.calls = @ + 1, !.shown = @ + 1, !.hold = 0]
           ELSE /\ pc' = AfterCallFailure(Module)
                /\ inv' = [inv EXCEPT !.calls = @ + 1, !.failed = @ + 1, !.errors = @ + 1,
                                      !.hold = 0]
                /\ UNCHANGED <<site, ticksLeft, holdStopAge>>
    /\ UNCHANGED <<passParity, today, date, loopLog, mode, cfg, server,
                   stop_event, attempt, idx, li, fi, total_elapsed, everSet,
                   sleepRun, probeLog, exitBy, shutdownTried>>
    /\ UNCHANGED cacheVars

\* sports: update_game_cache(date), then the loop over SUPPORTED_LEAGUES.
SportsUpdate ==
    /\ pc = "sports_update"
    /\ \E out \in Outcomes(cfg) :
          /\ update_game_cache(out, FALSE)
          /\ inv' = [inv EXCEPT !.fetched = Fetched(out)]
    /\ li' = 1
    /\ pc' = "sports_league"
    /\ UNCHANGED <<passParity, today, date, passLog, loopLog, mode, cfg, server,
                   now, site, stop_event, attempt, ticksLeft, idx, fi,
                   total_elapsed, everSet, sleepRun, holdStopAge, probeLog, exitBy,
                   shutdownTried>>

\* Variant of the league loop in which a skipped league ends the module.
AfterLeagueSkipEnd == "dm_done"

\* continue: a league that is switched off or has no games in the cache is
\* passed over and the loop goes on with the next league.
AfterLeagueSkip == "sports_league"

\* games = game_cache.get(league, []); if not games: continue
NoGames(cache, league) == CacheGet(cache, league) = <<>>

\* The head of one iteration of the league loop: the stop test, the enabled test
\* and the empty-cache test.
SportsLeague ==
    /\ pc = "sports_league"
    /\ IF li > Len(SUPPORTED_LEAGUES)
       THEN /\ pc' = "dm_done"
            /\ UNCHANGED <<stop_event, li, inv, passLog>>
       ELSE IF stop_event
       THEN /\ Observed
            /\ pc' = "dm_done"
            /\ inv' = [inv EXCEPT !.cut = TRUE]
            /\ passLog' = [passLog EXCEPT !.trouble = TRUE]
            /\ UNCHANGED li
       ELSE IF SUPPORTED_LEAGUES[li] \notin cfg.leagues
               \/ NoGames(game_cache, SUPPORTED_LEAGUES[li])
       THEN /\ li' = li + 1
            /\ pc' = AfterLeagueSkip
            /\ UNCHANGED <<stop_event, inv, passLog>>
       ELSE /\ pc' = "sports_request"
            /\ UNCHANGED <<stop_event, li, inv, passLog>>
    /\ UNCHANGED <<passParity, today, date, loopLog, mode, cfg, server,
                   site, attempt, ticksLeft, idx, fi, total_elapsed, everSet,
                   sleepRun, holdStopAge, probeLog, exitBy, shutdownTried>>
    /\ UNCHANGED cacheVars

\* The team filter, then requests.get(.../sports/<league>): on success the hold
\* of int(display_time) seconds, on RequestException the error is logged and the
\* module is left.
SportsRequest ==
    /\ pc = "sports_request"
    /\ LET league == SUPPORTED_LEAGUES[li]
           games == FilteredGames(league)
           sent == [inv EXCEPT !.calls = @ + 1, !.hold = 0, !.games = games,
                               !.teamsParam = TeamsActive(league),
                               !.visited = Append(@, league)]
       IN  \E ok \in Answers :
              /\ passLog' = [passLog EXCEPT !.calls = Append(@, Module),
                                            !.trouble = @ \/ ~ok]
              /\ IF ok THEN /\ EnterHold(ToInt(display_time(games)), "dm")
                            /\ inv' = [sent EXCEPT !.shown = @ + 1]
                 ELSE /\ pc' = AfterCallFailure(Module)
                      /\ inv' = [sent EXCEPT !.failed = @ + 1, !.errors = @ + 1]
                      /\ UNCHANGED <<site, ticksLeft, holdStopAge>>
    /\ UNCHANGED <<passParity, today, date, loopLog, mode, cfg, server, stop_event, attempt, idx,
                   li, fi, total_elapsed, everSet, sleepRun, probeLog, exitBy, shutdownTried>>
    /\ UNCHANGED cacheVars

\* The head of one iteration of the feed loop: the end of the list and the
\* max_total_runtime test.
NewsFeed ==
    /\ pc = "news_feed"
    /\ pc' = IF fi > cfg.feeds THEN "dm_done"
             ELSE IF CapReached(total_elapsed, cfg.max_total_runtime) THEN "dm_done"
             ELSE "news_request"
    /\ UNCHANGED <<passParity, today, date, passLog, loopLog, mode, cfg, server,
                   site, stop_event, attempt, ticksLeft, idx, li, fi,
                   total_elapsed, everSet, inv, sleepRun, holdStopAge, probeLog, exitBy,
                   shutdownTried>>
    /\ UNCHANGED cacheVars

\* Variant of the feed loop that stays on a feed whose request failed.
FeedAfterFailureSame(i) == i

\* continue in the except clause of the feed loop: the for statement moves on
\* to the next url.
FeedAfterFailure(i) == i + 1

\* requests.get(.../ticker): on success the hold of duration_per_feed seconds, on
\* RequestException the error is logged and the loop goes on with the next feed.
NewsRequest ==
    /\ pc = "news_request"
    /\ \E ok \in Answers :
        /\ passLog' = [passLog EXCEPT !.calls = Append(@, Module), !.trouble = @ \/ ~ok]
        /\ IF ok THEN /\ EnterHold(cfg.duration_per_feed, "dm")
                      /\ inv' = [inv EXCEPT !.calls = @ + 1, !.shown = @ + 1, !.hold = 0]
                      /\ UNCHANGED fi
           ELSE /\ pc' = AfterFeedFailure
                /\ fi' = FeedAfterFailure(fi)
                /\ inv' = [inv EXCEPT !.calls = @ + 1, !.failed = @ + 1, !.errors = @ + 1,
                                      !.hold = 0]
                /\ UNCHANGED <<site, ticksLeft, holdStopAge>>
    /\ UNCHANGED <<passParity, today, date, loopLog, mode, cfg, server,
                   stop_event, attempt, idx, li, total_elapsed, everSet,
                   sleepRun, probeLog, exitBy, shutdownTried>>
    /\ UNCHANGED cacheVars

---------------------------------------------------------------------------
(* Scheduler Loop: main_loop *)

\* while not is_event_signaled(stop_event): try: if check_pixelcade_health(): ...
AwaitCheck ==
    /\ pc = "await_check"
    /\ IF stop_event
       THEN /\ Observed
            /\ pc' = "banner_start"
            /\ UNCHANGED <<site, attempt, probeLog>>
       ELSE /\ StartProbe("await")
            /\ UNCHANGED stop_event
    /\ loopLog' = [loopLog EXCEPT !.round = "none", !.fallback = 0, !.waited = FALSE]
    /\ UNCHANGED <<passParity, today, date, passLog, mode, cfg, server,
                   ticksLeft, idx, li, fi, total_elapsed, everSet, inv,
                   sleepRun, holdStopAge, exitBy, shutdownTried>>
    /\ UNCHANGED cacheVars

\* The startup banner: its own health probe first.
BannerStart ==
    /\ pc = "banner_start"
    /\ StartProbe("banner")
    /\ date' = IF mode = "pi" THEN today ELSE date
    /\ UNCHANGED <<passParity, today, passLog, loopLog, mode, cfg, server, stop_event, ticksLeft, idx, li, fi, total_elapsed, everSet,
                   inv, sleepRun, holdStopAge, exitBy, shutdownTried>>
    /\ UNCHANGED cacheVars

\* requests.get(.../text, t=banner): on success the hold of 10 seconds, on
\* RequestException the loop goes on.
BannerSend ==
    /\ pc = "banner_send"
    /\ \E ok \in Answers :
        IF ok THEN /\ EnterHold(BANNER_HOLD, "banner")
                   /\ loopLog' = [loopLog EXCEPT !.banner = "sent"]
        ELSE /\ pc' = AfterBanner
             /\ loopLog' = [loopLog EXCEPT !.banner = "failed", !.bannerLog = @ + 1]
             /\ UNCHANGED <<site, ticksLeft, holdStopAge>>
    /\ UNCHANGED <<passParity, today, date, passLog, mode, cfg, server,
                   stop_event, attempt, idx, li, fi, total_elapsed, everSet,
                   inv, sleepRun, probeLog, exitBy, shutdownTried>>
    /\ UNCHANGED cacheVars

\* The banner loop of an empty module sequence: while not is_event_signaled(...).
\* When the loop is left the main display loop follows.
IdleCheck ==
    /\ pc = "idle_check"
    /\ IF stop_event
       THEN /\ Observed
            /\ pc' = "cycle_check"
            /\ UNCHANGED <<site, attempt, probeLog>>
       ELSE /\ StartProbe("idle")
            /\ UNCHANGED stop_event
    /\ loopLog' = [loopLog EXCEPT !.round = "none", !.fallback = 0, !.waited = FALSE,
                                  !.banner = "none", !.held = 0, !.bannerLog = 0]
    /\ UNCHANGED <<passParity, today, date, passLog, mode, cfg, server,
                   ticksLeft, idx, li, fi, total_elapsed, everSet, inv,
                   sleepRun, holdStopAge, exitBy, shutdownTried>>
    /\ UNCHANGED cacheVars

\* The banner request of the banner loop: on success the hold of 10 seconds, on
\* RequestException the interval wait.
IdleSend ==
    /\ pc = "idle_send"
    /\ \E ok \in Answers :
        IF ok THEN /\ EnterHold(BANNER_HOLD, "idle")
                   /\ loopLog' = [loopLog EXCEPT !.round = "sent"]
        ELSE /\ pc' = "wait"
             /\ site' = "idle"
             /\ ticksLeft' = cfg.health_check_interval
             /\ loopLog' = [loopLog EXCEPT !.round = "failed", !.fallback = @ + 1]
             /\ UNCHANGED holdStopAge
    /\ UNCHANGED <<passParity, today, date, passLog, mode, cfg, server,
                   stop_event, attempt, idx, li, fi, total_elapsed, everSet,
                   inv, sleepRun, probeLog, exitBy, shutdownTried>>
    /\ UNCHANGED cacheVars

\* while not is_event_signaled(stop_event): ... for module in modules:
CycleCheck ==
    /\ pc = "cycle_check"
    /\ IF stop_event
       THEN /\ Observed
            /\ pc' = "returned"
            /\ exitBy' = "token"
            /\ UNCHANGED <<idx, passParity, date, passLog>>
       ELSE /\ pc' = IF Len(cfg.sequence) = 0 THEN "cycle_check" ELSE "dm_entry"
            /\ idx' = IF Len(cfg.sequence) = 0 THEN idx ELSE 1
            /\ passParity' = 1 - passParity
            /\ date' = IF mode = "pi" THEN date ELSE today
            /\ passLog' = [NoPass EXCEPT !.day = today]
            /\ UNCHANGED <<stop_event, exitBy>>
    /\ loopLog' = [loopLog EXCEPT !.banner = "none", !.held = 0, !.bannerLog = 0]
    /\ UNCHANGED <<today, mode, cfg, server, site, attempt, ticksLeft, li, fi,
                   total_elapsed, everSet, inv, sleepRun, holdStopAge, probeLog,
                   shutdownTried>>
    /\ UNCHANGED cacheVars

\* The next module of the pass, or the next pass.
NextModulePc == IF idx < Len(cfg.sequence) THEN "dm_entry" ELSE "cycle_check"

\* if is_event_signaled(stop_event): break, after each display_module call of
\* sportslooper.py; piVersion.py has no such test.
BreakBetweenModules == mode # "pi" /\ stop_event

\* display_module has returned. sportslooper.py looks at the event between two
\* modules and breaks out of the pass; piVersion.py goes straight on.
DmDone ==
    /\ pc = "dm_done"
    /\ IF BreakBetweenModules
       THEN /\ Observed
            /\ pc' = "cycle_check"
            /\ UNCHANGED idx
       ELSE /\ pc' = NextModulePc
            /\ idx' = IF idx < Len(cfg.sequence) THEN idx + 1 ELSE idx
            /\ UNCHANGED stop_event
    /\ li' = 0
    /\ fi' = 0
    /\ total_elapsed' = 0
    /\ inv' = NoInv
    /\ UNCHANGED <<passParity, today, date, passLog, loopLog, mode, cfg, server,
                   site, attempt, ticksLeft, everSet, sleepRun, holdStopAge,
                   probeLog, exitBy, shutdownTried>>
    /\ UNCHANGED cacheVars

---------------------------------------------------------------------------
(* Shutdown Coordinator *)

\* SportsLooperService.SvcStop: win32event.SetEvent(self.stop_event), once per run.
SvcStop ==
    /\ mode = "service"
    /\ ~everSet
    /\ pc \notin Terminal
    /\ stop_event' = TRUE
    /\ everSet' = TRUE
    /\ holdStopAge' = IF InHold THEN 0 ELSE holdStopAge
    /\ inv' = IF inv.module # "" THEN [inv EXCEPT !.stopCalls = inv.calls] ELSE inv
    /\ loopLog' = IF pc = "wait" /\ site = "await"
                  THEN [loopLog EXCEPT !.stopInWait = TRUE] ELSE loopLog
    /\ passLog' = IF pc = "dm_done" \/ (pc = "dm_entry" /\ idx > 1)
                  THEN [passLog EXCEPT !.between = Len(passLog.order)] ELSE passLog
    /\ UNCHANGED <<passParity, today, date, mode, cfg, server,
                   pc, site, attempt, ticksLeft, idx, li, fi, total_elapsed,
                   sleepRun, probeLog, exitBy, shutdownTried>>
    /\ UNCHANGED cacheVars

\* Ctrl-C in script mode of sportslooper.py: KeyboardInterrupt in the main thread.
\* Inside the try block of the main display loop it is caught and the Shutdown
\* path starts with a health probe; anywhere else it leaves main_loop uncaught.
KeyboardInterrupt ==
    /\ mode = "script"
    /\ pc \notin Terminal
    /\ exitBy = "none"
    /\ ~shutdownTried
    /\ IF InCycling
       THEN /\ StartProbe("kbd")
            /\ shutdownTried' = TRUE
            /\ UNCHANGED exitBy
       ELSE /\ pc' = "crashed"
            /\ exitBy' = "kbd"
            /\ site' = "none"
            /\ attempt' = 0
            /\ probeLog' = NoProbe
            /\ UNCHANGED shutdownTried
    /\ ticksLeft' = 0
    /\ holdStopAge' = -1
    /\ sleepRun' = 0
    /\ UNCHANGED <<passParity, today, date, passLog, loopLog, mode, cfg, server,
                   stop_event, idx, li, fi, total_elapsed, everSet, inv>>
    /\ UNCHANGED cacheVars

\* requests.get(.../text, t=Shutdown) of the KeyboardInterrupt handler; a
\* RequestException is passed over. main_loop returns.
KbdSend ==
    /\ pc = "kbd_send"
    /\ \E ok \in Answers :
        /\ pc' = "returned"
        /\ exitBy' = "kbd"
    /\ UNCHANGED <<passParity, today, date, passLog, loopLog, mode, cfg, server,
                   site, stop_event, attempt, ticksLeft, idx, li, fi,
                   total_elapsed, everSet, inv, sleepRun, holdStopAge, probeLog,
                   shutdownTried>>
    /\ UNCHANGED cacheVars

\* SIGINT / SIGTERM in piVersion.py: signal_handler runs in the main thread,
\* starting with a health probe; the interrupted statement is never resumed
\* because the handler ends in sys.exit(0).
Signal ==
    /\ mode = "pi"
    /\ pc \notin Terminal
    /\ ~shutdownTried
    /\ StartProbe("sig")
    /\ shutdownTried' = TRUE
    /\ ticksLeft' = 0
    /\ holdStopAge' = -1
    /\ sleepRun' = 0
    /\ UNCHANGED <<passParity, today, date, passLog, loopLog, mode, cfg, server,
                   stop_event, idx, li, fi, total_elapsed, everSet, inv, exitBy>>
    /\ UNCHANGED cacheVars

\* requests.get(.../text, t=Shutdown) of signal_handler, then sys.exit(0).
SigSend ==
    /\ pc = "sig_send"
    /\ \E ok \in Answers :
        /\ pc' = "exited"
        /\ exitBy' = "signal"
    /\ UNCHANGED <<passParity, today, date, passLog, loopLog, mode, cfg, server,
                   site, stop_event, attempt, ticksLeft, idx, li, fi,
                   total_elapsed, everSet, inv, sleepRun, holdStopAge, probeLog,
                   shutdownTried>>
    /\ UNCHANGED cacheVars

\* Midnight passes. main_loop reads the date at fixed points only, so the day
\* is let change where a pass is about to begin and between two modules.
Midnight ==
    /\ mode # "cache"
    /\ today < MaxDay
    /\ pc \in {"cycle_check", "dm_done"}
    /\ today' = today + 1
    /\ UNCHANGED <<passParity, date, passLog, loopLog, mode, cfg, server, pc, site, stop_event,
                   attempt, ticksLeft, idx, li, fi, total_elapsed, everSet, inv, sleepRun,
                   holdStopAge, probeLog, exitBy, shutdownTried>>
    /\ UNCHANGED cacheVars

\* Time passes on the wall clock. Only update_game_cache reads the clock, so time
\* is let pass where it is about to be read.
LoopElapse ==
    /\ mode # "cache"
    /\ pc = "sports_update"
    /\ \E d \in ElapseSteps : Elapse(d)

---------------------------------------------------------------------------
(* A run of main_loop *)

Init ==
    /\ mode \in Modes
    /\ server \in {"up", "down"}
    /\ cfg \in Configs
    /\ pc = "await_check"
    /\ InitCommon

\* The steps of the program's own thread of control.
MainStep ==
    \/ ProbeAttempt \/ ProbeSleep \/ ProbeReturn
    \/ WaitWake \/ WaitTick
    \/ HoldCheck \/ HoldSleep
    \/ DmEntry \/ DmEnabled \/ DmRequest
    \/ SportsUpdate \/ SportsLeague \/ SportsRequest
    \/ NewsFeed \/ NewsRequest
    \/ AwaitCheck \/ BannerStart \/ BannerSend
    \/ IdleCheck \/ IdleSend
    \/ CycleCheck \/ DmDone
    \/ KbdSend \/ SigSend

\* The steps of the environment: the stop request and the clock.
EnvStep == SvcStop \/ KeyboardInterrupt \/ Signal \/ LoopElapse \/ Midnight

Next == MainStep \/ EnvStep

Spec == Init /\ [][Next]_vars

---------------------------------------------------------------------------
(* Properties of the Data Cache, under SpecCache *)

Count(x, s) == Cardinality({i \in 1..Len(s) : s[i] = x})

\* C1 (Cache TTL): a call of update_game_cache made while now < cache_expiry makes
\* no upstream request and leaves game_cache and cache_expiry as they were; a call
\* made when now >= cache_expiry makes exactly one request per enabled league and
\* none for a league that is not enabled; two refreshes that fetch are at least a
\* time-to-live apart.
C1_CacheTTL ==
    /\ lastUpdate.called =>
         /\ lastUpdate.at < lastUpdate.beforeExpiry =>
              /\ lastUpdate.log = <<>>
              /\ game_cache = lastUpdate.before
              /\ cache_expiry = lastUpdate.beforeExpiry
         /\ lastUpdate.at >= lastUpdate.beforeExpiry =>
              \A l \in Range(SUPPORTED_LEAGUES) :
                  Count(l, lastUpdate.log) = IF l \in cfg.leagues THEN 1 ELSE 0
    /\ refN.n = 2 => refN.at - refN.prevAt >= CACHE_TTL

\* A call inside the window of the second refresh, with two leagues enabled.
C1_Witness ==
    /\ lastUpdate.called
    /\ lastUpdate.at < lastUpdate.beforeExpiry
    /\ refN.n = 2
    /\ Cardinality(cfg.leagues) = 2

\* C2 (Cache fallback): after a refresh in which the fetch of an enabled league
\* failed while it had succeeded in the refresh before, the cache holds for that
\* league the list fetched by the refresh before; a league whose fetch succeeded
\* holds the newly fetched list.
C2_CacheFallback ==
    \A l \in Range(enabled_leagues(cfg)) :
        /\ (refN.n = 2 /\ ~refN.out[l].ok /\ refN.prevOut[l].ok)
              => CacheGet(game_cache, l) = refN.prevOut[l].games
        /\ (refN.n >= 1 /\ refN.out[l].ok)
              => CacheGet(game_cache, l) = refN.out[l].games

\* One league failed after a success that brought games, another one succeeded.
C2_Witness ==
    /\ refN.n = 2
    /\ \E l, k \in Range(enabled_leagues(cfg)) :
          /\ ~refN.out[l].ok
          /\ refN.prevOut[l].ok
          /\ refN.prevOut[l].games # <<>>
          /\ refN.out[k].ok
          /\ refN.out[k].games # refN.prevOut[k].games

\* C3 (wholesale replace): every call that finds the cache expired leaves a cache
\* whose keys are exactly the enabled leagues and an expiry of the time of the
\* call plus the time-to-live, whatever the fetches did.
C3_WholesaleReplace ==
    (lastUpdate.called /\ lastUpdate.at >= lastUpdate.beforeExpiry) =>
        /\ DOMAIN game_cache = Range(enabled_leagues(cfg))
        /\ cache_expiry = lastUpdate.at + CACHE_TTL

\* A refresh in which one fetch failed and one succeeded.
C3_Witness ==
    /\ lastUpdate.called
    /\ lastUpdate.at >= lastUpdate.beforeExpiry
    /\ refN.at = lastUpdate.at
    /\ \E l, k \in Range(enabled_leagues(cfg)) : ~refN.out[l].ok /\ refN.out[k].ok

---------------------------------------------------------------------------
(* Properties of the probe, the dispatcher and the loop, under Spec *)

\* The program's thread keeps running: every network call returns or times out
\* and every sleep ends.
FairSpec == Spec /\ WF_vars(MainStep)

C5_HealthGate ==
    inv.probe = "exhausted" =>
        /\ inv.calls = 0
        /\ inv.ticks = 0
        /\ inv.fallback = 1
        /\ (exitBy = "none" /\ ~shutdownTried) => pc = "dm_done"

\* A skipped sports module, back in the loop.
C5_Witness ==
    pc = "dm_done" /\ inv.probe = "exhausted" /\ inv.module = "sports"

\* C6 (cancellable wait): when the event is set during a hold, at most one more
\* second of the hold is slept, and the hold is then at its test of the event,
\* which ends it.
C6_CancellableWait ==
    /\ holdStopAge <= 1
    /\ holdStopAge = 1 => pc = "hold_check"
    /\ (holdStopAge >= 0 /\ pc = "hold_check" /\ ticksLeft > 0) => stop_event

\* The event was set during a hold with more than a second left, and the second
\* in progress has been slept.
C6_Witness ==
    holdStopAge = 1 /\ ticksLeft > 1 /\ site = "dm"

\* C7 (every wait observes the signal): no sleep runs for more than one second
\* without a look at the event.
C7_NoLongSleep == sleepRun <= 1

\* C8 (never reset): once the event is signaled it stays signaled.
C8_NeverReset == [][stop_event => stop_event']_vars

\* C9 (termination on shutdown): once the stop event has been set by the
\* stopping context, main_loop eventually returns.
C9_Termination == everSet ~> (pc = "returned")

\* C10 (Shutdown message on exit): when main_loop has returned because it saw
\* the event, the health-gated Shutdown message path was entered before.
C10_ShutdownOnExit ==
    (pc = "returned" /\ exitBy = "token") => shutdownTried

---------------------------------------------------------------------------
(* Properties of the Shutdown Coordinator *)

\* C11 (shutdown ordering): on every trigger the stop event is set first; so
\* whenever the Shutdown message path has been entered, and whenever the run has
\* ended, the event has been set before.
C11_TokenFirst == (shutdownTried \/ pc \in Terminal) => everSet

\* C12 (shutdown with the server down): with a Pixelcade server that never
\* answers, a run that was told to stop (the event set, or the handler of Ctrl-C
\* or of a signal entered) eventually ends.
C12_ShutdownTerminates ==
    (server = "down" /\ (everSet \/ shutdownTried)) ~> (pc \in Terminal)

---------------------------------------------------------------------------
(* Properties of the Module Dispatcher *)

\* The league of the running sports request or hold.
DmLeague == SUPPORTED_LEAGUES[li]

\* display_module is in the hold of a sports league.
InSportsHold == pc \in {"hold_check", "hold_sleep"} /\ site = "dm" /\ Module = "sports"

\* display_module is in the hold of a news feed.
InNewsHold == pc \in {"hold_check", "hold_sleep"} /\ site = "dm" /\ Module = "news"

\* display_module has returned from its module branch without a hold having
\* been ended by the stop event.
BranchOver == pc = "dm_done" /\ inv.dispatched /\ ~inv.cut

\* The positions in a list of the games in which one of the teams plays.
Matching(games, teams) == {i \in 1..Len(games) : games[i].teams \cap teams # {}}

\* The team filter applies to the league.
FilterOn(league) == cfg.teams[league] # {} /\ cfg.use_team_filter

\* The number of cached games of a league left after the team filter.
GameCount(league) ==
    IF FilterOn(league)
    THEN Cardinality(Matching(CacheGet(game_cache, league), cfg.teams[league]))
    ELSE Len(CacheGet(game_cache, league))

\* seconds_per_game in tenths of a second, 4 seconds when not configured.
SecondsPerGame10 == IF cfg.has_seconds_per_game THEN cfg.seconds_per_game ELSE 40

\* max(gameCount * secondsPerGame, secondsPerGame) for a league, in tenths.
LeagueDuration10(league) ==
    Max(GameCount(league) * SecondsPerGame10, SecondsPerGame10)

Min(a, b) == IF a <= b THEN a ELSE b

CeilDiv(a, b) == (a + b - 1) \div b

\* C13 (enabled by default): a module whose probe succeeded and whose
\* configuration does not say enabled = false is dispatched, also when it has no
\* configuration section.
C13_AbsentSectionEnabled ==
    (pc = "dm_done" /\ inv.probe = "ok" /\ inv.module \notin cfg.disabled) => inv.dispatched

\* What the hold of a displayed league lasts: the whole seconds of
\* max(gameCount * secondsPerGame, secondsPerGame), computed for each league.
SportsHoldLength ==
    InSportsHold =>
        inv.hold + ticksLeft = Max(ToInt(LeagueDuration10(DmLeague)), 0)

\* C14 (sports duration): when the hold of a displayed league has run out, the
\* number of seconds slept in it equals
\* max(gameCount * secondsPerGame, secondsPerGame), with gameCount the number of
\* games left after the team filter and secondsPerGame 4 when not configured.
C14_SportsDurationExact ==
    (InSportsHold /\ pc = "hold_check" /\ ticksLeft = 0) =>
        10 * inv.hold = LeagueDuration10(DmLeague)

\* C15 (duration floor): a league is displayed only if at least one game is left
\* after the team filter.
C15_ZeroGamesSkipped == InSportsHold => GameCount(DmLeague) >= 1

\* C16 (team filter): with the filter applying, the list the request and the
\* duration are made from is the sub-sequence, in the order of the cache, of
\* exactly the cached games in which a configured team plays; it is empty when
\* no game matches; for the games {A,B}, {C,D} and the team A it is the first
\* game alone.
C16_TeamFilter ==
    (InSportsHold /\ FilterOn(DmLeague)) =>
        LET G == CacheGet(game_cache, DmLeague)
            r == inv.games
            M == Matching(G, cfg.teams[DmLeague])
        IN  /\ Len(r) = Cardinality(M)
            /\ \E f \in [1..Len(r) -> M] :
                  /\ \A i \in 1..Len(r) : r[i] = G[f[i]]
                  /\ \A i, j \in 1..Len(r) : i < j => f[i] < f[j]
            /\ M = {} => r = <<>>
            /\ (G = <<Game(1, "A", "B"), Game(2, "C", "D")>> /\ cfg.teams[DmLeague] = {"A"})
                  => r = <<Game(1, "A", "B")>>

\* The games {A,B}, {C,D} filtered for the team A.
C16_Witness ==
    /\ InSportsHold
    /\ FilterOn(DmLeague)
    /\ CacheGet(game_cache, DmLeague) = <<Game(1, "A", "B"), Game(2, "C", "D")>>
    /\ cfg.teams[DmLeague] = {"A"}
    /\ inv.games = <<Game(1, "A", "B")>>

\* C17 (no teams, or the filter switched off): the list the duration is made
\* from is the cached list as it is, the hold lasts the duration of that list,
\* and the request carries no teams parameter.
C17_NoTeamsNoFilter ==
    (InSportsHold /\ ~(cfg.teams[DmLeague] # {} /\ cfg.use_team_filter)) =>
        /\ inv.games = CacheGet(game_cache, DmLeague)
        /\ ~inv.teamsParam
        /\ inv.hold + ticksLeft =
              Max(ToInt(Max(Len(CacheGet(game_cache, DmLeague)) * SecondsPerGame10,
                            SecondsPerGame10)), 0)

\* A league with no teams configured and the filter switched on, displayed with
\* two cached games.
C17_Witness ==
    /\ InSportsHold
    /\ cfg.use_team_filter
    /\ cfg.teams[DmLeague] = {}
    /\ Len(inv.games) = 2
    /\ inv.hold > 0

\* C18 (news runtime cap): a feed is requested only while max_total_runtime is 0
\* or the total so far is below it, and a feed is left unrequested only for that
\* test; a started feed is held for duration_per_feed seconds, and the total is
\* that of the feeds held in full; with no request failing the number of feeds
\* shown under a cap is min(feeds, ceil(cap / duration_per_feed)): 2 feeds and a
\* total of twice the feed duration for 3 feeds whose duration is 3/5 of the cap.
C18_NewsCap ==
    /\ pc = "news_request" =>
          (cfg.max_total_runtime = 0 \/ total_elapsed < cfg.max_total_runtime)
    /\ InNewsHold => inv.hold + ticksLeft = cfg.duration_per_feed
    /\ (BranchOver /\ inv.module = "news") =>
          /\ total_elapsed = inv.shown * cfg.duration_per_feed
          /\ fi <= cfg.feeds =>
                (cfg.max_total_runtime # 0 /\ total_elapsed >= cfg.max_total_runtime)
          /\ (inv.failed = 0 /\ cfg.max_total_runtime # 0) =>
                inv.shown = Min(cfg.feeds, CeilDiv(cfg.max_total_runtime, cfg.duration_per_feed))
          /\ (inv.failed = 0 /\ cfg.feeds = 3 /\ 5 * cfg.duration_per_feed = 3 * cfg.max_total_runtime)
                => (inv.shown = 2 /\ total_elapsed = 2 * cfg.duration_per_feed)

\* Three feeds under the cap, none failing: the module is over after two.
C18_Witness ==
    /\ BranchOver /\ inv.module = "news"
    /\ cfg.feeds = 3 /\ cfg.max_total_runtime = 5
    /\ inv.failed = 0
    /\ inv.shown = 2
    /\ total_elapsed = 6

\* C19 (feed failure isolation): a failed feed request is logged, gets no hold and
\* adds nothing to the total; the feeds are requested one after the other, each
\* once, and when the module is over with the cap not reached every feed has been
\* requested; the run goes on.
C19_FeedFailureIsolated ==
    inv.module = "news" =>
        /\ inv.errors = inv.failed
        /\ inv.calls = inv.shown + inv.failed
        /\ pc \in {"news_feed", "news_request"} =>
              /\ fi = inv.calls + 1
              /\ total_elapsed = inv.shown * cfg.duration_per_feed
              /\ inv.ticks = inv.shown * cfg.duration_per_feed
        /\ InNewsHold => fi = inv.calls
        /\ (BranchOver /\ ~CapReached(total_elapsed, cfg.max_total_runtime)) =>
              (fi = cfg.feeds + 1 /\ inv.calls = cfg.feeds)
        /\ (inv.failed > 0 /\ exitBy = "none" /\ ~shutdownTried) =>
              pc \in {"news_feed", "news_request", "hold_check", "hold_sleep", "dm_done"}

\* The first feed failed and the second one is being held.
C19_Witness ==
    /\ InNewsHold
    /\ fi = 2
    /\ inv.failed = 1
    /\ inv.shown = 1
    /\ inv.ticks = 1

\* C20 (display call failure): a failed display call of weather, clock, stocks or
\* of a sports league is logged once, is not tried again and gets no hold;
\* display_module has then returned (no later league is requested) and the loop
\* goes on; a run ends only by the stop event, Ctrl-C or a signal.
C20_CallFailure ==
    /\ (inv.module \in {"weather", "clock", "stocks", "sports"} /\ inv.failed > 0) =>
          /\ inv.failed = 1
          /\ inv.errors = 1
          /\ inv.calls = inv.shown + 1
          /\ inv.hold = 0
          /\ (exitBy = "none" /\ ~shutdownTried) => pc = "dm_done"
    /\ pc \in Terminal => exitBy \in {"token", "kbd", "signal"}

\* The request of the first league failed while a later enabled league has games.
C20_Witness ==
    /\ pc = "dm_done"
    /\ inv.module = "sports"
    /\ inv.failed = 1
    /\ li = 1
    /\ "nba" \in cfg.leagues
    /\ CacheGet(game_cache, "nba") # <<>>

---------------------------------------------------------------------------
(* The scheduler: startup loop, date, banner loop, order of a pass *)

\* C21 (AwaitingHealthy): the startup loop is left for the banner only after one
\* of its health probes has answered.
C21_LeftOnResponsive == pc = "banner_start" => loopLog.awaitOk

\* C22 (date rollover): every module of a pass is called with the date of the
\* day the pass began on.
C22_DatePerPass == inv.module # "" => inv.date = passLog.day

\* C23 (Idle): between one banner attempt of the banner loop and the next there
\* is an interval wait, whether the banner was shown or not.
C23_IdlePaced == (pc = "idle_check" /\ loopLog.round # "none") => loopLog.waited

\* C24 (cycling order): once the stop event was set between two modules of a
\* pass, no module after them is dispatched in that pass; and the modules of a
\* pass are called in the order of the sequence.
C24_BreakBetweenModules ==
    /\ \E n \in 0..Len(cfg.sequence) : passLog.order = SubSeq(cfg.sequence, 1, n)
    /\ (passLog.between > 0 /\ Len(passLog.order) > passLog.between)
           => inv.probe = "none" /\ ~inv.dispatched

\* A pass over the whole sequence has ended without a failed probe or request and
\* without the stop event being seen.
PassOver == pc = "cycle_check" /\ passLog.order = cfg.sequence /\ ~passLog.trouble

\* The configuration of the end-to-end example: weather (switched off), then
\* sports with seconds_per_game = 4 and one league, which has three games in the
\* cache and no team filter.
EndToEndCase ==
    /\ cfg.sequence = <<"weather", "sports">>
    /\ "weather" \in cfg.sections /\ "weather" \in cfg.disabled
    /\ "sports" \in cfg.sections /\ "sports" \notin cfg.disabled
    /\ SecondsPerGame10 = 40
    /\ \E l \in cfg.leagues :
          /\ cfg.leagues = {l}
          /\ ~FilterOn(l)
          /\ Len(CacheGet(game_cache, l)) = 3

\* C25 (end-to-end pass): in the example a full pass issues no weather request,
\* exactly one sports request, and sleeps exactly 12 one-second ticks.
C25_EndToEnd ==
    (EndToEndCase /\ PassOver) => passLog.calls = <<"sports">> /\ passLog.ticks = 12

C25_Witness ==
    /\ EndToEndCase /\ PassOver
    /\ passLog.calls = <<"sports">> /\ passLog.ticks = 12

---------------------------------------------------------------------------
(* Cancellation inside the loops and the dispatcher *)

\* C26 (no request after the stop): a display_module call in which the stop event
\* was set sends at most the request that was under way at that moment, and the
\* startup banner is not requested when the startup loop was ended by the stop
\* event.
C26_NoRequestAfterStop ==
    /\ inv.stopCalls >= 0 => inv.calls <= inv.stopCalls + 1
    /\ pc = "banner_send" => loopLog.awaitOk

\* C27 (stop during the startup wait): once the stop event was set during an
\* interval wait of the startup loop, main_loop does nothing but end that wait,
\* test the event and return.
C27_ExitFromStartupWait == loopLog.stopInWait => pc \in {"wait", "await_check", "returned"}

\* C28 (duration floor): a hold of the dispatcher that ran to its end slept at
\* least one one-second tick.
C28_HoldAtLeastOneTick == (pc = "hold_check" /\ site = "dm" /\ ticksLeft = 0) => inv.hold >= 1

---------------------------------------------------------------------------
(* The league loop and the attempt-once rule *)

\* The position of a league in SUPPORTED_LEAGUES.
LeaguePos(l) == CHOOSE i \in 1..Len(SUPPORTED_LEAGUES) : SUPPORTED_LEAGUES[i] = l

\* The leagues the sports branch has to display: switched on and with games in
\* the cache, in the order of SUPPORTED_LEAGUES.
DueLeagues ==
    SelectSeq(SUPPORTED_LEAGUES,
              LAMBDA l : l \in cfg.leagues /\ CacheGet(game_cache, l) # <<>>)

\* C29 (league iteration): the leagues requested by one sports invocation are in
\* the order of SUPPORTED_LEAGUES, each switched on and with games in the cache;
\* and an invocation that ran to its end without a failed request has requested
\* every such league, whatever leagues were skipped before it.
C29_LeagueIteration ==
    inv.module = "sports" =>
       /\ \A i, j \in 1..Len(inv.visited) :
             i < j => LeaguePos(inv.visited[i]) < LeaguePos(inv.visited[j])
       /\ \A i \in 1..Len(inv.visited) :
             inv.visited[i] \in cfg.leagues /\ CacheGet(game_cache, inv.visited[i]) # <<>>
       /\ (BranchOver /\ inv.failed = 0) => inv.visited = DueLeagues

\* The first league of the file is the second of SUPPORTED_LEAGUES; the league
\* before it is switched on, has no games and was skipped, and the later league
\* was displayed.
C29_Witness ==
    /\ BranchOver /\ inv.module = "sports" /\ inv.failed = 0
    /\ cfg.league_keys = <<"nba", "nfl">>
    /\ "nfl" \in cfg.leagues /\ CacheGet(game_cache, "nfl") = <<>>
    /\ inv.visited = <<"nba">> /\ inv.shown = 1

NoDuplicates(s) == \A i, j \in 1..Len(s) : s[i] = s[j] => i = j

\* C30 (attempt once): one invocation of display_module sends at most one request
\* for weather, clock or stocks, one per league for sports and one per feed for
\* news, whether the request succeeds or fails; one refresh fetches each league
\* at most once; only the health probe is attempted again, up to three times.
C30_AttemptOnce ==
    /\ inv.module \in {"weather", "clock", "stocks"} => inv.calls <= 1
    /\ inv.module = "sports" => inv.calls = Len(inv.visited) /\ NoDuplicates(inv.visited)
    /\ inv.module = "news" =>
          /\ inv.calls <= cfg.feeds
          /\ pc = "news_request" => inv.calls = fi - 1
    /\ NoDuplicates(inv.fetched)
    /\ probeLog.attempts <= MAX_ATTEMPTS

\* A feed request failed and the next feed, not the same one, was requested.
C30_Witness ==
    /\ inv.module = "news" /\ pc = "news_request"
    /\ inv.failed = 1 /\ inv.calls = 1 /\ fi = 2

---------------------------------------------------------------------------
(* The cache inside the running scheduler *)

\* C31 (frame of the cache): game_cache and cache_expiry change only in the
\* update_game_cache call of a sports invocation, and only when the expiry has
\* been reached; every other step, and a call before the expiry, leaves both as
\* they were.
C31_CacheFrame ==
    [][(game_cache' # game_cache \/ cache_expiry' # cache_expiry)
          => (pc = "sports_update" /\ now >= cache_expiry)]_vars

\* update_game_cache was called before the expiry by a sports invocation that
\* follows modules which displayed or were skipped: nothing was fetched and the
\* filled cache is still there.
C31_Witness ==
    /\ inv.module = "sports" /\ pc = "sports_league" /\ li = 1
    /\ now < cache_expiry /\ now > cache_expiry - CACHE_TTL
    /\ inv.fetched = <<>>
    /\ game_cache # EmptyCache
    /\ Len(passLog.order) = 2

---------------------------------------------------------------------------
(* Outage of the Pixelcade server, the banner, the checks of display_module *)

\* Ctrl-C or a signal has interrupted the main display loop.
InShutdown == shutdownTried

\* The module of the invocation at hand has something to request: weather, clock
\* and stocks always, sports a league that is switched on with cached games,
\* news a feed.
HasContent ==
    \/ inv.module \in {"weather", "clock", "stocks"}
    \/ inv.module = "sports" /\ DueLeagues # <<>>
    \/ inv.module = "news" /\ cfg.feeds > 0

\* C32 (recovery from an outage): an invocation whose probe was exhausted after
\* at most three attempts is skipped with one fallback-log line and no request,
\* and the main display loop goes on; main_loop ends only by the stop event,
\* Ctrl-C or a signal; and an invocation whose probe answered, of a module that
\* is switched on, has sent a request by the time it ends.
C32_OutageRecovery ==
    /\ probeLog.attempts <= MAX_ATTEMPTS
    /\ inv.probe = "exhausted" =>
          /\ pc = "dm_done" \/ InShutdown
          /\ inv.calls = 0 /\ ~inv.dispatched /\ inv.fallback = 1
    /\ pc \in Terminal => everSet \/ InShutdown \/ (pc = "crashed" /\ exitBy = "kbd")
    /\ (BranchOver /\ inv.probe = "ok" /\ HasContent) => inv.calls >= 1

\* A module of the pass was skipped because the probe was exhausted, and a later
\* module of the same pass was displayed.
C32_Witness ==
    /\ passLog.outage
    /\ BranchOver /\ inv.probe = "ok" /\ HasContent
    /\ inv.calls = 1 /\ inv.shown = 1
    /\ pc \notin Terminal

InBannerHold == pc \in {"hold_check", "hold_sleep"} /\ site = "banner"

\* Ctrl-C outside the main display loop, a signal, or the stop event has ended or
\* is ending main_loop.
Cancelled == shutdownTried \/ pc = "crashed" \/ (pc = "returned" /\ everSet)

\* C33 (ShowBanner): the banner request is sent only straight after a probe of
\* the banner code that answered; its hold sleeps ten one-second ticks unless
\* main_loop is cancelled in it; and when the probe is exhausted or the request
\* fails, one line is written to the fallback log and main_loop goes on to the
\* banner loop or the main display loop.
C33_ShowBanner ==
    /\ [](/\ (loopLog.banner = "sent" /\ InBannerHold) => loopLog.held + ticksLeft = 10
          /\ (loopLog.banner = "sent" /\ ~InBannerHold) =>
                \/ loopLog.held = 10 /\ pc = AfterBanner
                \/ Cancelled
          /\ loopLog.banner \in {"failed", "down"} =>
                /\ loopLog.bannerLog = 1 /\ loopLog.held = 0
                /\ pc = AfterBanner \/ Cancelled)
    /\ [][(pc' = "banner_send" /\ pc # "banner_send")
             => (pc = "probe_done" /\ site = "banner" /\ probeLog.result = "ok")]_vars

\* The banner was sent and held for its ten seconds, and the loop after it is
\* about to begin.
C33_Witness ==
    /\ loopLog.banner = "sent" /\ loopLog.held = 10
    /\ pc = AfterBanner /\ ~stop_event /\ ~shutdownTried

\* C34 (probe timeout): every attempt of the health probe is made with the
\* health_check_timeout setting as its timeout.
C34_ProbeTimeout == probeLog.attempts > 0 => probeLog.timeout = cfg.health_check_timeout

\* The sports module cannot be displayed: the server never answers, or the
\* module is switched off or has no section.
SportsShut ==
    server = "down" \/ "sports" \in cfg.disabled \/ "sports" \notin cfg.sections

\* C35 (upstream gate): the ESPN API is asked, and the expiry moved, only by a
\* sports invocation that found the stop event unset, whose probe answered and
\* that passed the section and enabled tests; while the server does not answer
\* or sports is switched off or without a section, nothing is fetched and the
\* cache stays as it was created.
C35_UpstreamGate ==
    /\ [](/\ inv.fetched # <<>> =>
                /\ inv.module = "sports" /\ inv.probe = "ok" /\ inv.dispatched
                /\ "sports" \in cfg.sections /\ "sports" \notin cfg.disabled
          /\ SportsShut => inv.fetched = <<>> /\ cache_expiry = 0 /\ game_cache = EmptyCache)
    /\ [][(cache_expiry' # cache_expiry \/ game_cache' # game_cache)
             => (inv.module = "sports" /\ inv.probe = "ok" /\ inv.dispatched)]_vars

\* A sports invocation whose probe answered was skipped at the section or
\* enabled test; the cache is due for a refresh and nothing was fetched.
C35_Witness ==
    /\ pc = "dm_done" /\ inv.module = "sports" /\ inv.probe = "ok" /\ ~inv.dispatched
    /\ server = "up" /\ SportsShut
    /\ now >= cache_expiry /\ inv.fetched = <<>>

\* C36 (refresh gated by the expiry alone): the update_game_cache call of a
\* sports invocation refreshes the cache, with the date of the pass, exactly when
\* the expiry has been reached; before the expiry it fetches nothing and leaves
\* the cache as it is, also when the date of the pass is not the date the cache
\* was fetched for; the expiry is never more than the time-to-live away.
C36_ExpiryAloneGates ==
    /\ [](cache_expiry <= now + CACHE_TTL)
    /\ [][(pc = "sports_update" /\ pc' = "sports_league") =>
             IF now >= cache_expiry
             THEN /\ cache_expiry' = now + CACHE_TTL
                  /\ fetchedFor' = date
                  /\ inv'.fetched = enabled_leagues(cfg)
             ELSE /\ cache_expiry' = cache_expiry
                  /\ game_cache' = game_cache
                  /\ fetchedFor' = fetchedFor
                  /\ inv'.fetched = <<>>]_vars

\* A league is on display in a pass of a new day from a cache that was fetched
\* for the day before and has not expired.
C36_Witness ==
    /\ InSportsHold /\ inv.shown >= 1
    /\ inv.date # fetchedFor /\ inv.date = today
    /\ inv.fetched = <<>> /\ now < cache_expiry

---------------------------------------------------------------------------
(* The cache over several refreshes (cache harness) *)

\* C37 (stale fallback persists): a league whose request has succeeded is cached
\* with the list of its last successful request, however many refreshes have
\* failed for it since; a league that was asked for and never answered is in the
\* cache with an empty list, which the league loop passes over.
C37_StalePersists ==
    \A l \in cfg.leagues :
       /\ fetchHist[l].ok => CacheGet(game_cache, l) = fetchHist[l].good
       /\ (~fetchHist[l].ok /\ fetchHist[l].fails >= 1) =>
             /\ l \in DOMAIN game_cache
             /\ game_cache[l] = <<>>
             /\ NoGames(game_cache, l)

\* Two refreshes in a row failed for a league that had been fetched with games
\* before, while another league has never been fetched.
C37_Witness ==
    \E l, k \in cfg.leagues :
       /\ fetchHist[l].ok /\ fetchHist[l].fails = 2
       /\ fetchHist[l].good # <<>> /\ game_cache[l] = fetchHist[l].good
       /\ ~fetchHist[k].ok /\ fetchHist[k].fails >= 2 /\ game_cache[k] = <<>>

---------------------------------------------------------------------------
(* The order of the checks of display_module *)

\* The module of the invocation at hand is passed over by the section test or
\* the enabled test.
Skipped == SectionSkip(inv.module) \/ DisabledSkip(inv.module)

\* C38 (order of the checks): an invocation probes the server once, after it
\* found the stop event unset and before the section and enabled tests, and
\* never again, however many leagues or feeds it requests; a module that is
\* switched off or has no section is probed all the same and then sends no
\* request and holds no second; nothing is requested without a probe that
\* answered.
C38_CheckOrder ==
    inv.module # "" =>
       /\ inv.probes <= 1
       /\ inv.probes = 0 => inv.probe = "none" /\ inv.calls = 0 /\ ~inv.dispatched
       /\ inv.probes = 1 => inv.probe \in {"ok", "exhausted"}
       /\ (pc = "dm_done" /\ inv.probes = 0) => passLog.trouble
       /\ (inv.dispatched \/ inv.calls > 0) => inv.probe = "ok" /\ ~Skipped
       /\ (Skipped /\ inv.probe = "ok" /\ pc = "dm_done") =>
             /\ ~inv.dispatched /\ inv.calls = 0 /\ inv.ticks = 0
             /\ inv.fallback = 0

\* A module that is switched off was probed, the probe answered, and the module
\* was left without a request and without a hold.
C38_Witness ==
    /\ pc = "dm_done" /\ inv.probes = 1 /\ inv.probe = "ok"
    /\ DisabledSkip(inv.module) /\ inv.calls = 0 /\ inv.ticks = 0

=============================================================================
